---- MODULE Spec2Model ----
(***************************************************************************)
(* Model of the unifi_pdu integration: config-entry setup and unload       *)
(* (__init__.py), the UniFiController session (controller.py: entity       *)
(* registration, heartbeat sweep, reconnect loop, shutdown, connect error  *)
(* mapping) and the outlet switch entity (switch.py).                      *)
(***************************************************************************)
EXTENDS Integers, Sequences, FiniteSets

VARIABLES
    \* ---- config entry lifecycle (__init__.py) ----
    setup_pc,            \* position of async_setup_entry
    setup_attempts,      \* number of times the host has started setup
    conn_raised,         \* exception raised inside get_unifi_controller's try
    conn_error,          \* exception get_unifi_controller raised to its caller
    init_raised,         \* exception raised by an await of controller.initialize
    setup_error,         \* exception async_setup_entry raised to the host
    registry,            \* entry_id in hass.data[DOMAIN]
    unload_pc,           \* position of async_unload_entry
    unload_result,       \* value async_unload_entry returned
    stop_listener,       \* EVENT_HOMEASSISTANT_STOP listener registered
    callback_after_unload, \* a sweep or stream callback ran after unload returned True
    \* ---- UniFiController (controller.py) ----
    heartbeat_check,     \* _cancel_heartbeat_check is set (interval timer active)
    websocket,           \* state of the api's push-event stream
    outlets,             \* ids in api.outlets
    known_objects,       \* self.known_objects
    entities,            \* adapters handed to async_add_entities, per object id
    added_subscribed,    \* number of ItemEvent.ADDED subscriptions on api.outlets
    options_listeners,   \* dispatcher connections to signal_options_update
    last_op,             \* last registrar operation that ran
    last_created,        \* adapters created by the last registrar operation
    \* ---- heartbeat sweep ----
    heartbeat_time,      \* self._heartbeat_time
    dispatched,          \* ids whose missed-heartbeat signal the last step sent
    \* ---- reconnect loop ----
    clock,               \* event-loop time in seconds
    tasks,               \* start times of the async_reconnect tasks in flight
    timers,              \* due times of the pending call_later(reconnect) handles
    reconnect_calls,     \* reconnect() calls made from outside the loop
    failed_attempts,     \* attempts that ended in a caught exception
    retries_scheduled,   \* call_later(RETRY_TIMER, reconnect) calls made
    last_failure,        \* clock of the last failed attempt
    succeeded,           \* an attempt completed login + start_websocket
    shutdown_ran,        \* shutdown() has been called
    call_after_shutdown, \* reconnect() was called from outside after shutdown()
    login_after_shutdown,\* an attempt began its login after shutdown()
    \* ---- switch entity (switch.py) ----
    is_on,               \* _attr_is_on of each adapter
    relay_state,         \* outlet.relay_state of each object snapshot
    cmd,                 \* position of async_turn_on/async_turn_off per adapter
    target,              \* target value of the adapter's current command
    cmd_error,           \* control_fn raised in the adapter's current command
    created,             \* the adapter has been constructed
    only_event,          \* self.only_event_for_state_change of each adapter
    available,           \* _attr_available of each adapter
    notified,            \* async_write_ha_state calls made by the last handler
    last_handler,        \* the state or event handler that ran last, and how it ended
    attr_written,        \* the last handler assigned _attr_is_on
    \* ---- entity description (switch.py) ----
    desc_only_event,     \* description.only_event_for_state_change
    event_to_subscribe,  \* description.event_to_subscribe
    event_is_on,         \* description.event_is_on
    \* ---- heartbeat sweep history ----
    signal_count         \* missed-heartbeat signals sent so far, per id

lifecycle_vars == <<setup_pc, setup_attempts, conn_raised, conn_error, init_raised,
                    setup_error, registry, unload_pc, unload_result, stop_listener,
                    callback_after_unload, heartbeat_check>>
registrar_vars == <<outlets, known_objects, entities, added_subscribed,
                    options_listeners, last_op, last_created>>
stale_vars     == <<heartbeat_time, dispatched, signal_count>>
reconnect_vars == <<tasks, timers, reconnect_calls, failed_attempts,
                    retries_scheduled, last_failure, succeeded, shutdown_ran,
                    call_after_shutdown, login_after_shutdown>>
command_vars   == <<cmd, target, cmd_error>>
entity_vars    == <<created, only_event, available, notified, last_handler,
                    attr_written>>
descriptor_vars == <<desc_only_event, event_to_subscribe, event_is_on>>
switch_vars    == <<is_on, relay_state, command_vars, entity_vars, descriptor_vars>>

vars == <<lifecycle_vars, registrar_vars, stale_vars, reconnect_vars, switch_vars,
          websocket, clock>>

(***************************************************************************)
(* Bounds                                                                  *)
(***************************************************************************)
MaxObjects == 2
MaxSetupAttempts == 2
MaxClock == 36
MaxReconnectCalls == 2
MaxFailures == 2
MaxHeartbeat == 3

Ids == 1 .. MaxObjects

(***************************************************************************)
(* Program constants                                                       *)
(***************************************************************************)
RETRY_TIMER == 15
RECONNECT_TIMEOUT == 5
KEY == "Outlet control"

(***************************************************************************)
(* Exception classes and Python's except-clause dispatch                   *)
(***************************************************************************)
\* Classes the integration names; "AiounifiException" raised directly stands
\* for a client-library error of a class the code does not name.
Parent ==
    [ TimeoutError        |-> "Exception",
      AiounifiException   |-> "Exception",
      RequestError        |-> "AiounifiException",
      ResponseError       |-> "AiounifiException",
      Unauthorized        |-> "AiounifiException",
      LoginRequired       |-> "AiounifiException",
      ServiceUnavailable  |-> "RequestError",
      BadGateway          |-> "RequestError",
      HomeAssistantError  |-> "Exception",
      UnifiException      |-> "HomeAssistantError",
      CannotConnect       |-> "UnifiException",
      InvalidAuth         |-> "UnifiException",
      ConfigEntryNotReady |-> "HomeAssistantError",
      ConfigEntryAuthFailed |-> "HomeAssistantError",
      Exception           |-> "Exception" ]

RECURSIVE IsInstance(_, _)
IsInstance(e, c) ==
    IF e = c THEN TRUE
    ELSE IF e = "Exception" THEN FALSE
    ELSE IsInstance(Parent[e], c)

\* Errors the client library's calls raise
ApiErrors == {"TimeoutError", "BadGateway", "ServiceUnavailable", "RequestError",
              "ResponseError", "Unauthorized", "LoginRequired", "AiounifiException"}

\* first clause of a try statement that matches e; e itself when none does
RECURSIVE Dispatch(_, _)
Dispatch(clauses, e) ==
    IF clauses = << >> THEN e
    ELSE IF \E c \in Head(clauses).catch : IsInstance(e, c)
         THEN Head(clauses).raise
         ELSE Dispatch(Tail(clauses), e)

(***************************************************************************)
(* get_unifi_controller: mapping of check_unifi_os / login failures        *)
(***************************************************************************)
ConnectClauses_generic_first ==
    << [catch |-> {"AiounifiException"}, raise |-> "InvalidAuth"],
       [catch |-> {"Unauthorized"}, raise |-> "InvalidAuth"],
       [catch |-> {"TimeoutError", "BadGateway", "ServiceUnavailable",
                   "RequestError", "ResponseError"}, raise |-> "CannotConnect"],
       [catch |-> {"LoginRequired"}, raise |-> "InvalidAuth"] >>

\* the except clauses of get_unifi_controller, in source order
ConnectClauses ==
    << [catch |-> {"Unauthorized"}, raise |-> "InvalidAuth"],
       [catch |-> {"TimeoutError", "BadGateway", "ServiceUnavailable",
                   "RequestError", "ResponseError"}, raise |-> "CannotConnect"],
       [catch |-> {"LoginRequired"}, raise |-> "InvalidAuth"],
       [catch |-> {"AiounifiException"}, raise |-> "InvalidAuth"] >>

get_unifi_controller(e) == Dispatch(ConnectClauses, e)

\* the except clauses of async_setup_entry
SetupClauses ==
    << [catch |-> {"CannotConnect"}, raise |-> "ConfigEntryNotReady"],
       [catch |-> {"InvalidAuth"}, raise |-> "ConfigEntryAuthFailed"] >>

async_setup_entry_except(e) == Dispatch(SetupClauses, e)

(***************************************************************************)
(* Entity registrar: register_platform_add_entities                        *)
(***************************************************************************)
allowed_fn(obj_id) == TRUE
supported_fn(obj_id) == TRUE

\* UnifiEntity.__init__ records (description.key, obj_id) in known_objects
UnifiEntity_init(known, obj_ids) == known \cup {<<KEY, id>> : id \in obj_ids}

NewEntities_no_known_check(obj_ids) ==
    {id \in obj_ids : allowed_fn(id) /\ supported_fn(id)}

\* the list comprehension of async_add_unifi_entity
NewEntities(obj_ids) ==
    {id \in obj_ids : /\ <<KEY, id>> \notin known_objects
                      /\ allowed_fn(id)
                      /\ supported_fn(id)}

async_add_unifi_entity(obj_ids) ==
    LET new == NewEntities(obj_ids) IN
    /\ entities' = [id \in Ids |-> entities[id] + IF id \in new THEN 1 ELSE 0]
    /\ known_objects' = UnifiEntity_init(known_objects, new)
    /\ last_created' = Cardinality(new)

InitialScan_skipped(ids) == {}

\* async_load_entities: the ids of the scan made when the kind is registered
InitialScan(ids) == ids

\* register_platform_add_entities, called by switch.async_setup_entry
register_platform_add_entities ==
    /\ async_add_unifi_entity(InitialScan(outlets))
    /\ added_subscribed' = added_subscribed + 1
    /\ options_listeners' = options_listeners + 1
    /\ last_op' = "register"
    /\ UNCHANGED outlets

(***************************************************************************)
(* Heartbeat sweep: _async_check_for_stale                                 *)
(***************************************************************************)
\* ids for which the loop sends the missed-heartbeat signal
StaleSignals(hb, now) == {id \in DOMAIN hb : now > hb[id]}

unique_ids_to_remove_all_tracked(hb, now) == DOMAIN hb

\* ids the loop appends to unique_ids_to_remove
unique_ids_to_remove(hb, now) == {id \in DOMAIN hb : now > hb[id]}

_async_check_for_stale_keeps_tracking(now) ==
    /\ dispatched' = StaleSignals(heartbeat_time, now)
    /\ signal_count' = [id \in Ids |->
           IF id \in StaleSignals(heartbeat_time, now) /\ signal_count[id] < 2
           THEN signal_count[id] + 1 ELSE signal_count[id]]
    /\ UNCHANGED heartbeat_time

\* the sweep: signal every tracked id whose time has passed, then drop it;
\* signal_count records how many signals each id has had (capped at 2)
_async_check_for_stale(now) ==
    /\ dispatched' = StaleSignals(heartbeat_time, now)
    /\ signal_count' = [id \in Ids |->
           IF id \in StaleSignals(heartbeat_time, now) /\ signal_count[id] < 2
           THEN signal_count[id] + 1 ELSE signal_count[id]]
    /\ heartbeat_time' =
           [id \in DOMAIN heartbeat_time \ unique_ids_to_remove(heartbeat_time, now)
               |-> heartbeat_time[id]]

(***************************************************************************)
(* Config entry setup and unload (__init__.py)                             *)
(***************************************************************************)
EmptyMap == [id \in {} |-> 0]

LifecycleInit ==
    /\ setup_pc = "idle"
    /\ setup_attempts = 0
    /\ conn_raised = "none"
    /\ conn_error = "none"
    /\ init_raised = "none"
    /\ setup_error = "none"
    /\ registry = FALSE
    /\ unload_pc = "idle"
    /\ unload_result = "none"
    /\ stop_listener = FALSE
    /\ callback_after_unload = FALSE
    /\ heartbeat_check = FALSE

\* UniFiController.__init__ (entities and subscriptions of a fresh session)
RegistrarInit ==
    /\ outlets = {}
    /\ known_objects = {}
    /\ entities = [id \in Ids |-> 0]
    /\ added_subscribed = 0
    /\ options_listeners = 0
    /\ last_op = "none"
    /\ last_created = 0

StaleInit ==
    /\ heartbeat_time = EmptyMap
    /\ dispatched = {}
    /\ signal_count = [id \in Ids |-> 0]

ReconnectInit ==
    /\ tasks = << >>
    /\ timers = << >>
    /\ reconnect_calls = 0
    /\ failed_attempts = 0
    /\ retries_scheduled = 0
    /\ last_failure = 0
    /\ succeeded = FALSE
    /\ shutdown_ran = FALSE
    /\ call_after_shutdown = FALSE
    /\ login_after_shutdown = FALSE

\* the outlet descriptor leaves only_event_for_state_change at its default
only_event_for_state_change == FALSE

\* a descriptor field that is None, and one that is a tuple of event keys
NoKeys == [tuple |-> FALSE, keys |-> {}]
KeyTuple(ks) == [tuple |-> TRUE, keys |-> ks]

\* ENTITY_DESCRIPTIONS[0]: event_is_on=None, event_to_subscribe=None
DescriptorInit ==
    /\ desc_only_event = only_event_for_state_change
    /\ event_to_subscribe = NoKeys
    /\ event_is_on = NoKeys

CommandInit ==
    /\ cmd = [id \in Ids |-> "idle"]
    /\ target = [id \in Ids |-> FALSE]
    /\ cmd_error = [id \in Ids |-> FALSE]

HandlerInit ==
    /\ notified = 0
    /\ last_handler = "none"
    /\ attr_written = FALSE

\* no adapter constructed yet
SwitchInit ==
    /\ is_on = [id \in Ids |-> FALSE]
    /\ relay_state = [id \in Ids |-> FALSE]
    /\ created = [id \in Ids |-> FALSE]
    /\ only_event = [id \in Ids |-> FALSE]
    /\ available = [id \in Ids |-> FALSE]
    /\ CommandInit
    /\ HandlerInit
    /\ DescriptorInit

Init ==
    /\ LifecycleInit
    /\ RegistrarInit
    /\ StaleInit
    /\ ReconnectInit
    /\ SwitchInit
    /\ websocket = "stopped"
    /\ clock = 0

\* the host starts async_setup_entry; it suspends in get_unifi_controller
SetupStart ==
    /\ setup_pc \in {"idle", "failed"}
    /\ setup_attempts < MaxSetupAttempts
    /\ setup_attempts' = setup_attempts + 1
    /\ setup_pc' = "connect"
    /\ conn_raised' = "none"
    /\ conn_error' = "none"
    /\ init_raised' = "none"
    /\ setup_error' = "none"
    /\ UNCHANGED <<registry, unload_pc, unload_result, stop_listener,
                   callback_after_unload, heartbeat_check>>
    /\ UNCHANGED <<registrar_vars, stale_vars, reconnect_vars, switch_vars,
                   websocket, clock>>

\* check_unifi_os and login succeed; UniFiController is constructed and
\* initialize() suspends in api.initialize()
ConnectOk ==
    /\ setup_pc = "connect"
    /\ setup_pc' = "api_initialize"
    /\ known_objects' = {}
    /\ outlets' = {}
    /\ UNCHANGED <<setup_attempts, conn_raised, conn_error, init_raised, setup_error,
                   registry, unload_pc, unload_result, stop_listener,
                   callback_after_unload, heartbeat_check>>
    /\ UNCHANGED <<entities, added_subscribed, options_listeners,
                   last_op, last_created>>
    /\ UNCHANGED <<stale_vars, reconnect_vars, switch_vars, websocket, clock>>

\* check_unifi_os or login raises e (or the 10 s timeout expires)
ConnectFails(e) ==
    /\ setup_pc = "connect"
    /\ conn_raised' = e
    /\ conn_error' = get_unifi_controller(e)
    /\ setup_error' = async_setup_entry_except(get_unifi_controller(e))
    /\ setup_pc' = "failed"
    /\ UNCHANGED <<setup_attempts, init_raised, registry, unload_pc, unload_result,
                   stop_listener, callback_after_unload, heartbeat_check>>
    /\ UNCHANGED <<registrar_vars, stale_vars, reconnect_vars, switch_vars,
                   websocket, clock>>

ApiInitializeOk_starts_timer(objs) ==
    /\ setup_pc = "api_initialize"
    /\ outlets' = objs
    /\ setup_pc' = "sites"
    /\ heartbeat_check' = TRUE
    /\ UNCHANGED <<setup_attempts, conn_raised, conn_error, init_raised, setup_error,
                   registry, unload_pc, unload_result, stop_listener,
                   callback_after_unload>>
    /\ UNCHANGED <<known_objects, entities, added_subscribed, options_listeners,
                   last_op, last_created>>
    /\ UNCHANGED <<stale_vars, reconnect_vars, switch_vars, websocket, clock>>

\* api.initialize() returns: the client has loaded the controller's objects
ApiInitializeOk(objs) ==
    /\ setup_pc = "api_initialize"
    /\ outlets' = objs
    /\ setup_pc' = "sites"
    /\ UNCHANGED <<setup_attempts, conn_raised, conn_error, init_raised, setup_error,
                   registry, unload_pc, unload_result, stop_listener,
                   callback_after_unload, heartbeat_check>>
    /\ UNCHANGED <<known_objects, entities, added_subscribed, options_listeners,
                   last_op, last_created>>
    /\ UNCHANGED <<stale_vars, reconnect_vars, switch_vars, websocket, clock>>

\* api.sites() returns; site id and name are resolved
SitesOk ==
    /\ setup_pc = "sites"
    /\ setup_pc' = "site_description"
    /\ UNCHANGED <<setup_attempts, conn_raised, conn_error, init_raised, setup_error,
                   registry, unload_pc, unload_result, stop_listener,
                   callback_after_unload, heartbeat_check>>
    /\ UNCHANGED <<registrar_vars, stale_vars, reconnect_vars, switch_vars,
                   websocket, clock>>

SiteDescriptionOk_no_timer ==
    /\ setup_pc = "site_description"
    /\ registry' = TRUE
    /\ setup_pc' = "forward_entry_setups"
    /\ UNCHANGED <<setup_attempts, conn_raised, conn_error, init_raised, setup_error,
                   unload_pc, unload_result, stop_listener, callback_after_unload,
                   heartbeat_check>>
    /\ UNCHANGED <<registrar_vars, stale_vars, reconnect_vars, switch_vars,
                   websocket, clock>>

\* api.site_description() returns; initialize() starts the sweep timer and
\* returns; async_setup_entry stores the controller and suspends in
\* async_forward_entry_setups
SiteDescriptionOk ==
    /\ setup_pc = "site_description"
    /\ heartbeat_check' = TRUE
    /\ registry' = TRUE
    /\ setup_pc' = "forward_entry_setups"
    /\ UNCHANGED <<setup_attempts, conn_raised, conn_error, init_raised, setup_error,
                   unload_pc, unload_result, stop_listener, callback_after_unload>>
    /\ UNCHANGED <<registrar_vars, stale_vars, reconnect_vars, switch_vars,
                   websocket, clock>>

\* one of the awaits of initialize() raises e; initialize() has no handler
\* and async_setup_entry handles only CannotConnect and InvalidAuth
InitializeFails(e) ==
    /\ setup_pc \in {"api_initialize", "sites", "site_description"}
    /\ init_raised' = e
    /\ setup_error' = async_setup_entry_except(e)
    /\ setup_pc' = "failed"
    /\ UNCHANGED <<setup_attempts, conn_raised, conn_error, registry, unload_pc,
                   unload_result, stop_listener, callback_after_unload,
                   heartbeat_check>>
    /\ UNCHANGED <<registrar_vars, stale_vars, reconnect_vars, switch_vars,
                   websocket, clock>>

\* the switch platform is set up: switch.async_setup_entry
PlatformSetup ==
    /\ setup_pc = "forward_entry_setups"
    /\ registry
    /\ register_platform_add_entities
    /\ setup_pc' = "platforms_ready"
    /\ UNCHANGED <<setup_attempts, conn_raised, conn_error, init_raised, setup_error,
                   registry, unload_pc, unload_result, stop_listener,
                   callback_after_unload, heartbeat_check>>
    /\ UNCHANGED <<stale_vars, reconnect_vars, switch_vars, websocket, clock>>

\* async_forward_entry_setups returns; the stream is started and the stop
\* listener registered; async_setup_entry returns True
SetupFinish ==
    /\ setup_pc = "platforms_ready"
    /\ websocket' = "running"
    /\ stop_listener' = TRUE
    /\ setup_pc' = "done"
    /\ UNCHANGED <<setup_attempts, conn_raised, conn_error, init_raised, setup_error,
                   registry, unload_pc, unload_result, callback_after_unload,
                   heartbeat_check>>
    /\ UNCHANGED <<registrar_vars, stale_vars, reconnect_vars, switch_vars, clock>>

\* the push stream delivers an object: the client stores it in api.outlets
\* and calls every ItemEvent.ADDED subscriber (async_create_entity)
ObjectAdded(id) ==
    /\ websocket = "running"
    /\ outlets' = outlets \cup {id}
    /\ IF added_subscribed > 0
       THEN /\ async_add_unifi_entity({id})
            /\ last_op' = "added"
            /\ callback_after_unload' =
                   (callback_after_unload \/ unload_result = "ok")
       ELSE UNCHANGED <<known_objects, entities, last_created, last_op,
                        callback_after_unload>>
    /\ UNCHANGED <<added_subscribed, options_listeners>>
    /\ UNCHANGED <<setup_pc, setup_attempts, conn_raised, conn_error, init_raised,
                   setup_error, registry, unload_pc, unload_result, stop_listener,
                   heartbeat_check>>
    /\ UNCHANGED <<stale_vars, reconnect_vars, switch_vars, websocket, clock>>

\* signal_options_update is dispatched: async_options_updated rescans
OptionsUpdated ==
    /\ options_listeners > 0
    /\ async_add_unifi_entity(outlets)
    /\ last_op' = "options_updated"
    /\ UNCHANGED <<outlets, added_subscribed, options_listeners>>
    /\ UNCHANGED <<lifecycle_vars, stale_vars, reconnect_vars, switch_vars,
                   websocket, clock>>

\* the interval timer started by initialize() fires
HeartbeatInterval ==
    /\ heartbeat_check
    /\ _async_check_for_stale(clock)
    /\ callback_after_unload' = (callback_after_unload \/ unload_result = "ok")
    /\ UNCHANGED <<setup_pc, setup_attempts, conn_raised, conn_error, init_raised,
                   setup_error, registry, unload_pc, unload_result, stop_listener,
                   heartbeat_check>>
    /\ UNCHANGED <<registrar_vars, reconnect_vars, switch_vars, websocket, clock>>

\* the host starts async_unload_entry; it suspends in async_unload_platforms
UnloadStart ==
    /\ setup_pc = "done"
    /\ unload_pc = "idle"
    /\ unload_result # "ok"
    /\ unload_pc' = "unload_platforms"
    /\ UNCHANGED <<setup_pc, setup_attempts, conn_raised, conn_error, init_raised,
                   setup_error, registry, unload_result, stop_listener,
                   callback_after_unload, heartbeat_check>>
    /\ UNCHANGED <<registrar_vars, stale_vars, reconnect_vars, switch_vars,
                   websocket, clock>>

UnloadPlatformsDone_pops_always(ok) ==
    /\ unload_pc = "unload_platforms"
    /\ unload_pc' = "idle"
    /\ registry' = FALSE
    /\ IF ok
       THEN /\ unload_result' = "ok"
            /\ options_listeners' = 0
            /\ stop_listener' = FALSE
       ELSE /\ unload_result' = "failed"
            /\ UNCHANGED <<options_listeners, stop_listener>>
    /\ UNCHANGED <<setup_pc, setup_attempts, conn_raised, conn_error, init_raised,
                   setup_error, callback_after_unload, heartbeat_check>>
    /\ UNCHANGED <<outlets, known_objects, entities, added_subscribed,
                   last_op, last_created>>
    /\ UNCHANGED <<stale_vars, reconnect_vars, switch_vars, websocket, clock>>

\* async_unload_platforms returns ok; async_unload_entry pops the registry
\* entry when ok and returns ok.  On True the host then runs the callbacks
\* registered with entry.async_on_unload: the options-update dispatcher
\* connections and the stop listener are removed.
UnloadPlatformsDone(ok) ==
    /\ unload_pc = "unload_platforms"
    /\ unload_pc' = "idle"
    /\ IF ok
       THEN /\ registry' = FALSE
            /\ unload_result' = "ok"
            /\ options_listeners' = 0
            /\ stop_listener' = FALSE
       ELSE /\ unload_result' = "failed"
            /\ UNCHANGED <<registry, options_listeners, stop_listener>>
    /\ UNCHANGED <<setup_pc, setup_attempts, conn_raised, conn_error, init_raised,
                   setup_error, callback_after_unload, heartbeat_check>>
    /\ UNCHANGED <<outlets, known_objects, entities, added_subscribed,
                   last_op, last_created>>
    /\ UNCHANGED <<stale_vars, reconnect_vars, switch_vars, websocket, clock>>

\* EVENT_HOMEASSISTANT_STOP fires the listen_once listener: shutdown(event)
HomeAssistantStop ==
    /\ stop_listener
    /\ stop_listener' = FALSE
    /\ websocket' = "stopped"
    /\ shutdown_ran' = TRUE
    /\ UNCHANGED <<setup_pc, setup_attempts, conn_raised, conn_error, init_raised,
                   setup_error, registry, unload_pc, unload_result,
                   callback_after_unload, heartbeat_check>>
    /\ UNCHANGED <<tasks, timers, reconnect_calls, failed_attempts,
                   retries_scheduled, last_failure, succeeded,
                   call_after_shutdown, login_after_shutdown>>
    /\ UNCHANGED <<registrar_vars, stale_vars, switch_vars, clock>>

Next ==
    \/ SetupStart
    \/ ConnectOk
    \/ \E e \in ApiErrors : ConnectFails(e)
    \/ \E objs \in SUBSET Ids : ApiInitializeOk(objs)
    \/ SitesOk
    \/ SiteDescriptionOk
    \/ \E e \in ApiErrors \ {"TimeoutError"} : InitializeFails(e)
    \/ PlatformSetup
    \/ SetupFinish
    \/ \E id \in Ids : ObjectAdded(id)
    \/ OptionsUpdated
    \/ HeartbeatInterval
    \/ UnloadStart
    \/ \E ok \in BOOLEAN : UnloadPlatformsDone(ok)
    \/ HomeAssistantStop

Spec == Init /\ [][Next]_vars

(***************************************************************************)
(* Reconnect loop and shutdown (controller.py)                             *)
(***************************************************************************)
\* state async_setup_entry leaves behind when it returns True
SessionReady ==
    /\ setup_pc = "done"
    /\ setup_attempts = 1
    /\ conn_raised = "none"
    /\ conn_error = "none"
    /\ init_raised = "none"
    /\ setup_error = "none"
    /\ registry = TRUE
    /\ unload_pc = "idle"
    /\ unload_result = "none"
    /\ stop_listener = TRUE
    /\ callback_after_unload = FALSE
    /\ heartbeat_check = TRUE
    /\ outlets = {}
    /\ known_objects = {}
    /\ entities = [id \in Ids |-> 0]
    /\ added_subscribed = 1
    /\ options_listeners = 1
    /\ last_op = "register"
    /\ last_created = 0

InitReconnect ==
    /\ SessionReady
    /\ StaleInit
    /\ ReconnectInit
    /\ SwitchInit
    /\ websocket \in {"running", "stopped"}
    /\ clock = 0

RemoveAt(s, i) == SubSeq(s, 1, i - 1) \o SubSeq(s, i + 1, Len(s))

ReconnectCatches_timeout_only(e) == IsInstance(e, "TimeoutError")

\* the except clause of async_reconnect
ReconnectCatches(e) ==
    \E c \in {"TimeoutError", "BadGateway", "ServiceUnavailable",
              "AiounifiException"} : IsInstance(e, c)

\* self.hass.loop.create_task(self.async_reconnect())
create_reconnect_task ==
    /\ tasks' = Append(tasks, clock)
    /\ login_after_shutdown' = (login_after_shutdown \/ shutdown_ran)

\* reconnect() is called from outside the loop
Reconnect ==
    /\ reconnect_calls < MaxReconnectCalls
    /\ reconnect_calls' = reconnect_calls + 1
    /\ call_after_shutdown' = (call_after_shutdown \/ shutdown_ran)
    /\ create_reconnect_task
    /\ UNCHANGED <<timers, failed_attempts, retries_scheduled, last_failure,
                   succeeded, shutdown_ran>>
    /\ UNCHANGED <<lifecycle_vars, registrar_vars, stale_vars, switch_vars,
                   websocket, clock>>

\* a call_later(RETRY_TIMER, self.reconnect) handle comes due
RetryTimerFires ==
    /\ timers # << >>
    /\ Head(timers) <= clock
    /\ timers' = Tail(timers)
    /\ create_reconnect_task
    /\ UNCHANGED <<reconnect_calls, failed_attempts, retries_scheduled,
                   last_failure, succeeded, shutdown_ran, call_after_shutdown>>
    /\ UNCHANGED <<lifecycle_vars, registrar_vars, stale_vars, switch_vars,
                   websocket, clock>>

\* task i: login() returns within the timeout and start_websocket() runs
AttemptSucceeds(i) ==
    /\ i \in 1 .. Len(tasks)
    /\ clock < tasks[i] + RECONNECT_TIMEOUT
    /\ tasks' = RemoveAt(tasks, i)
    /\ websocket' = "running"
    /\ succeeded' = TRUE
    /\ UNCHANGED <<timers, reconnect_calls, failed_attempts, retries_scheduled,
                   last_failure, shutdown_ran, call_after_shutdown,
                   login_after_shutdown>>
    /\ UNCHANGED <<lifecycle_vars, registrar_vars, stale_vars, switch_vars, clock>>

\* task i: login() raises e, or the 5 s timeout expires (TimeoutError)
AttemptFails(i, e) ==
    /\ i \in 1 .. Len(tasks)
    /\ failed_attempts < MaxFailures
    /\ IF e = "TimeoutError"
       THEN clock = tasks[i] + RECONNECT_TIMEOUT
       ELSE clock < tasks[i] + RECONNECT_TIMEOUT
    /\ tasks' = RemoveAt(tasks, i)
    /\ failed_attempts' = failed_attempts + 1
    /\ last_failure' = clock
    /\ IF ReconnectCatches(e)
       THEN /\ timers' = Append(timers, clock + RETRY_TIMER)
            /\ retries_scheduled' = retries_scheduled + 1
       ELSE UNCHANGED <<timers, retries_scheduled>>
    /\ UNCHANGED <<reconnect_calls, succeeded, shutdown_ran, call_after_shutdown,
                   login_after_shutdown>>
    /\ UNCHANGED <<lifecycle_vars, registrar_vars, stale_vars, switch_vars,
                   websocket, clock>>

Shutdown_toggles ==
    /\ websocket' = IF websocket = "stopped" THEN "running" ELSE "stopped"
    /\ shutdown_ran' = TRUE
    /\ UNCHANGED <<tasks, timers, reconnect_calls, failed_attempts,
                   retries_scheduled, last_failure, succeeded,
                   call_after_shutdown, login_after_shutdown>>
    /\ UNCHANGED <<lifecycle_vars, registrar_vars, stale_vars, switch_vars, clock>>

\* shutdown(event): self.api.stop_websocket()
Shutdown ==
    /\ websocket' = "stopped"
    /\ shutdown_ran' = TRUE
    /\ UNCHANGED <<tasks, timers, reconnect_calls, failed_attempts,
                   retries_scheduled, last_failure, succeeded,
                   call_after_shutdown, login_after_shutdown>>
    /\ UNCHANGED <<lifecycle_vars, registrar_vars, stale_vars, switch_vars, clock>>

\* a second passes; due timers and expired timeouts run first
Tick ==
    /\ clock < MaxClock
    /\ \A i \in 1 .. Len(timers) : timers[i] > clock
    /\ \A i \in 1 .. Len(tasks) : tasks[i] + RECONNECT_TIMEOUT > clock
    /\ clock' = clock + 1
    /\ UNCHANGED <<lifecycle_vars, registrar_vars, stale_vars, reconnect_vars,
                   switch_vars, websocket>>

NextReconnect ==
    \/ Reconnect
    \/ RetryTimerFires
    \/ \E i \in 1 .. Len(tasks) : AttemptSucceeds(i)
    \/ \E i \in 1 .. Len(tasks), e \in ApiErrors : AttemptFails(i, e)
    \/ Shutdown
    \/ Tick

SpecReconnect == InitReconnect /\ [][NextReconnect]_vars

(***************************************************************************)
(* Heartbeat sweep over a tracked-heartbeat map                            *)
(***************************************************************************)
\* _heartbeat_time is drawn from the maps of tracked ids to expiry times
InitStale ==
    /\ SessionReady
    /\ ReconnectInit
    /\ SwitchInit
    /\ heartbeat_time \in UNION {[S -> 0 .. MaxHeartbeat] : S \in SUBSET Ids}
    /\ dispatched = {}
    /\ signal_count = [id \in Ids |-> 0]
    /\ websocket = "running"
    /\ clock = 0

NextStale ==
    \/ HeartbeatInterval
    \/ Tick

SpecStale == InitStale /\ [][NextStale]_vars

(***************************************************************************)
(* Switch entity (switch.py)                                               *)
(***************************************************************************)
\* every outlet has its adapter; async_initiate_state has read the snapshot
InitSwitch ==
    /\ SessionReady
    /\ StaleInit
    /\ ReconnectInit
    /\ DescriptorInit
    /\ relay_state \in [Ids -> BOOLEAN]
    /\ is_on = relay_state
    /\ created = [id \in Ids |-> TRUE]
    /\ only_event = [id \in Ids |-> desc_only_event]
    /\ available = [id \in Ids |-> TRUE]
    /\ CommandInit
    /\ HandlerInit
    /\ websocket = "running"
    /\ clock = 0

async_turn_call_optimistic(id, t) ==
    /\ cmd[id] # "pending"
    /\ cmd' = [cmd EXCEPT ![id] = "pending"]
    /\ target' = [target EXCEPT ![id] = t]
    /\ cmd_error' = [cmd_error EXCEPT ![id] = FALSE]
    /\ is_on' = [is_on EXCEPT ![id] = t]
    /\ UNCHANGED relay_state

\* async_turn_on (t = TRUE) / async_turn_off (t = FALSE) up to the await of
\* control_fn: the relay request for target t is in flight
async_turn_call(id, t) ==
    /\ cmd[id] # "pending"
    /\ cmd' = [cmd EXCEPT ![id] = "pending"]
    /\ target' = [target EXCEPT ![id] = t]
    /\ cmd_error' = [cmd_error EXCEPT ![id] = FALSE]
    /\ UNCHANGED <<is_on, relay_state>>

async_turn_resume_swallows(id, ok) ==
    /\ cmd[id] = "pending"
    /\ cmd_error' = [cmd_error EXCEPT ![id] = ~ok]
    /\ cmd' = [cmd EXCEPT ![id] = "done"]
    /\ IF ok
       THEN is_on' = [is_on EXCEPT ![id] = target[id]]
       ELSE UNCHANGED is_on
    /\ UNCHANGED <<relay_state, target>>

\* the await of control_fn returns (ok) or raises (~ok); cmd "done" is the
\* coroutine returning to its caller, "failed" the exception leaving it
async_turn_resume(id, ok) ==
    /\ cmd[id] = "pending"
    /\ cmd_error' = [cmd_error EXCEPT ![id] = ~ok]
    /\ IF ok
       THEN /\ is_on' = [is_on EXCEPT ![id] = target[id]]
            /\ cmd' = [cmd EXCEPT ![id] = "done"]
       ELSE /\ cmd' = [cmd EXCEPT ![id] = "failed"]
            /\ UNCHANGED is_on
    /\ UNCHANGED <<relay_state, target>>

TurnCalled(id, t) ==
    /\ async_turn_call(id, t)
    /\ UNCHANGED <<entity_vars, descriptor_vars>>
    /\ UNCHANGED <<lifecycle_vars, registrar_vars, stale_vars, reconnect_vars,
                   websocket, clock>>

TurnResumed(id, ok) ==
    /\ async_turn_resume(id, ok)
    /\ UNCHANGED <<entity_vars, descriptor_vars>>
    /\ UNCHANGED <<lifecycle_vars, registrar_vars, stale_vars, reconnect_vars,
                   websocket, clock>>

\* the client replaces the outlet's snapshot
RelayStateChanges(id) ==
    /\ relay_state' = [relay_state EXCEPT ![id] = ~relay_state[id]]
    /\ UNCHANGED <<is_on, command_vars, entity_vars, descriptor_vars>>
    /\ UNCHANGED <<lifecycle_vars, registrar_vars, stale_vars, reconnect_vars,
                   websocket, clock>>

\* the body of async_update_state for an adapter whose instance flag is
\* flag: the cached value after the call and whether _attr_is_on was assigned
update_state_value(flag, cur, snapshot) ==
    IF flag THEN cur ELSE IF snapshot # cur THEN snapshot ELSE cur

update_state_writes(flag, cur, snapshot) == ~flag /\ snapshot # cur

\* async_update_state: re-read the snapshot
async_update_state(id) ==
    /\ created[id]
    /\ is_on' = [is_on EXCEPT ![id] =
                     update_state_value(only_event[id], is_on[id], relay_state[id])]
    /\ attr_written' = update_state_writes(only_event[id], is_on[id], relay_state[id])
    /\ notified' = 0
    /\ last_handler' = "update_state"
    /\ UNCHANGED <<relay_state, command_vars, created, only_event, available,
                   descriptor_vars>>
    /\ UNCHANGED <<lifecycle_vars, registrar_vars, stale_vars, reconnect_vars,
                   websocket, clock>>

\* async_update: bool(random.getrandbits(1))
async_update(id, bit) ==
    /\ is_on' = [is_on EXCEPT ![id] = bit]
    /\ UNCHANGED <<relay_state, command_vars, entity_vars, descriptor_vars>>
    /\ UNCHANGED <<lifecycle_vars, registrar_vars, stale_vars, reconnect_vars,
                   websocket, clock>>

NextSwitch ==
    \/ \E id \in Ids, t \in BOOLEAN : TurnCalled(id, t)
    \/ \E id \in Ids, ok \in BOOLEAN : TurnResumed(id, ok)
    \/ \E id \in Ids : RelayStateChanges(id)
    \/ \E id \in Ids : async_update_state(id)
    \/ \E id \in Ids, bit \in BOOLEAN : async_update(id, bit)

SpecSwitch == InitSwitch /\ [][NextSwitch]_vars

(***************************************************************************)
(* Switch entity: creation, state reads and event callback, over the       *)
(* descriptors a UnifiSwitchEntityDescription can hold                     *)
(***************************************************************************)
\* keys a descriptor lists, and keys an event of the stream carries
DescriptorKeys == {"on", "off"}
EventKeys == {"on", "off", "other"}

\* event.mac values: the adapters' object ids and one id that has no adapter
Macs == 0 .. MaxObjects

\* (event_to_subscribe, event_is_on): both None, as in ENTITY_DESCRIPTIONS, or
\* a tuple of subscribed keys and the tuple of those that mean "on"
DescriptorEvents ==
    {<<NoKeys, NoKeys>>} \cup
    {<<KeyTuple(sub), KeyTuple(on)>> : sub \in SUBSET DescriptorKeys, on \in SUBSET DescriptorKeys}

\* a switch descriptor with either value of only_event_for_state_change; no
\* adapter constructed yet
InitEntity ==
    /\ SessionReady
    /\ StaleInit
    /\ ReconnectInit
    /\ CommandInit
    /\ HandlerInit
    /\ desc_only_event \in BOOLEAN
    /\ event_to_subscribe = NoKeys
    /\ event_is_on = NoKeys
    /\ relay_state \in [Ids -> BOOLEAN]
    /\ is_on = [id \in Ids |-> FALSE]
    /\ created = [id \in Ids |-> FALSE]
    /\ only_event = [id \in Ids |-> FALSE]
    /\ available = [id \in Ids |-> FALSE]
    /\ websocket = "running"
    /\ clock = 0

flag_during_initiate_assigned_first(desc_flag) == desc_flag

\* self.only_event_for_state_change while async_initiate_state calls
\* async_update_state: still the class attribute, False
flag_during_initiate(desc_flag) == FALSE

\* the adapter is constructed: async_initiate_state reads the snapshot
\* (_attr_is_on is None before, so the value read differs and is assigned)
\* and then copies the descriptor's only_event_for_state_change
async_initiate_state(id) ==
    LET flag == flag_during_initiate(desc_only_event) IN
    /\ is_on' = [is_on EXCEPT ![id] = IF flag THEN is_on[id] ELSE relay_state[id]]
    /\ attr_written' = ~flag
    /\ only_event' = [only_event EXCEPT ![id] = desc_only_event]

EntityCreated(id, avail) ==
    /\ ~created[id]
    /\ created' = [created EXCEPT ![id] = TRUE]
    /\ available' = [available EXCEPT ![id] = avail]
    /\ async_initiate_state(id)
    /\ notified' = 0
    /\ last_handler' = "initiate_state"
    /\ UNCHANGED <<relay_state, command_vars, descriptor_vars>>
    /\ UNCHANGED <<lifecycle_vars, registrar_vars, stale_vars, reconnect_vars,
                   websocket, clock>>

async_event_callback_no_mac_check(id, mac, key, avail) ==
    IF ~event_to_subscribe.tuple \/ ~event_is_on.tuple
    THEN /\ last_handler' = "event_assertion_error"
         /\ notified' = 0
         /\ attr_written' = FALSE
         /\ UNCHANGED <<is_on, available>>
    ELSE /\ last_handler' = "event_handled"
         /\ IF key \in event_to_subscribe.keys
            THEN /\ is_on' = [is_on EXCEPT ![id] = (key \in event_is_on.keys)]
                 /\ attr_written' = TRUE
            ELSE /\ UNCHANGED is_on
                 /\ attr_written' = FALSE
         /\ available' = [available EXCEPT ![id] = avail]
         /\ notified' = 1

async_event_callback_wrong_tuple(id, mac, key, avail) ==
    IF mac # id
    THEN /\ last_handler' = "event_ignored"
         /\ notified' = 0
         /\ attr_written' = FALSE
         /\ UNCHANGED <<is_on, available>>
    ELSE IF ~event_to_subscribe.tuple \/ ~event_is_on.tuple
    THEN /\ last_handler' = "event_assertion_error"
         /\ notified' = 0
         /\ attr_written' = FALSE
         /\ UNCHANGED <<is_on, available>>
    ELSE /\ last_handler' = "event_handled"
         /\ IF key \in event_to_subscribe.keys
            THEN /\ is_on' = [is_on EXCEPT ![id] = (key \in event_to_subscribe.keys)]
                 /\ attr_written' = TRUE
            ELSE /\ UNCHANGED is_on
                 /\ attr_written' = FALSE
         /\ available' = [available EXCEPT ![id] = avail]
         /\ notified' = 1

\* async_event_callback of adapter id for an event (mac, key); avail is the
\* value description.available_fn returns
async_event_callback(id, mac, key, avail) ==
    IF mac # id
    THEN /\ last_handler' = "event_ignored"
         /\ notified' = 0
         /\ attr_written' = FALSE
         /\ UNCHANGED <<is_on, available>>
    ELSE IF ~event_to_subscribe.tuple \/ ~event_is_on.tuple
    THEN /\ last_handler' = "event_assertion_error"
         /\ notified' = 0
         /\ attr_written' = FALSE
         /\ UNCHANGED <<is_on, available>>
    ELSE /\ last_handler' = "event_handled"
         /\ IF key \in event_to_subscribe.keys
            THEN /\ is_on' = [is_on EXCEPT ![id] = (key \in event_is_on.keys)]
                 /\ attr_written' = TRUE
            ELSE /\ UNCHANGED is_on
                 /\ attr_written' = FALSE
         /\ available' = [available EXCEPT ![id] = avail]
         /\ notified' = 1

EventCallback(id, mac, key) ==
    /\ created[id]
    /\ \E avail \in BOOLEAN : async_event_callback(id, mac, key, avail)
    /\ UNCHANGED <<relay_state, command_vars, created, only_event, descriptor_vars>>
    /\ UNCHANGED <<lifecycle_vars, registrar_vars, stale_vars, reconnect_vars,
                   websocket, clock>>

NextEntity ==
    \/ \E id \in Ids, avail \in BOOLEAN : EntityCreated(id, avail)
    \/ \E id \in Ids : async_update_state(id)
    \/ \E id \in Ids : RelayStateChanges(id)

SpecEntity == InitEntity /\ [][NextEntity]_vars

\* every outlet has its adapter; the descriptor's event keys are drawn
InitEvent ==
    /\ SessionReady
    /\ StaleInit
    /\ ReconnectInit
    /\ CommandInit
    /\ HandlerInit
    /\ desc_only_event = only_event_for_state_change
    /\ \E d \in DescriptorEvents : event_to_subscribe = d[1] /\ event_is_on = d[2]
    /\ relay_state \in [Ids -> BOOLEAN]
    /\ is_on = relay_state
    /\ created = [id \in Ids |-> TRUE]
    /\ only_event = [id \in Ids |-> desc_only_event]
    /\ available = [id \in Ids |-> TRUE]
    /\ websocket = "running"
    /\ clock = 0

NextEvent ==
    \E id \in Ids, mac \in Macs, key \in EventKeys : EventCallback(id, mac, key)

SpecEvent == InitEvent /\ [][NextEvent]_vars

(***************************************************************************)
(* Properties                                                              *)
(***************************************************************************)

\* C1: after any sequence of registration scans, object-added events and
\* options-updated rescans, at most one adapter exists for each
\* (entity-kind, object-id) pair, and every pair that has its adapter is in
\* the known-objects set.
C1_AtMostOneAdapter ==
    \A id \in Ids : /\ entities[id] <= 1
                    /\ (entities[id] = 1 <=> <<KEY, id>> \in known_objects)

\* a rescan has run over ids that all have their adapter already
C1_Witness ==
    /\ last_op = "options_updated"
    /\ outlets = Ids
    /\ \A id \in Ids : entities[id] = 1

\* C2: the registration scan creates exactly one adapter for every object id
\* present at registration time, and an options-updated rescan creates no
\* further adapter.
C2_RegistrationIdempotent ==
    /\ last_op = "register" =>
           /\ last_created = Cardinality(outlets)
           /\ \A id \in outlets : entities[id] = 1
    /\ last_op = "options_updated" =>
           /\ last_created = 0
           /\ \A id \in outlets : entities[id] = 1

\* the rescan ran right after a registration that discovered every id
C2_Witness ==
    /\ setup_pc = "platforms_ready"
    /\ last_op = "options_updated"
    /\ outlets = Ids
    /\ last_created = 0

\* C3: a sweep removes an id from the tracked-heartbeat map if and only if it
\* sends the missed-heartbeat signal for that id in the same sweep, and an id
\* that is not tracked is neither signalled nor removed.
C3_RemovedIffSignalled ==
    [][HeartbeatInterval =>
          \A id \in Ids :
             /\ (id \in DOMAIN heartbeat_time /\ id \notin DOMAIN heartbeat_time')
                    <=> id \in dispatched'
             /\ id \notin DOMAIN heartbeat_time =>
                    (id \notin dispatched' /\ id \notin DOMAIN heartbeat_time')]_vars

\* a sweep signalled and removed one id and kept another that is not stale
C3_Witness ==
    /\ dispatched = {1}
    /\ DOMAIN heartbeat_time = {2}
    /\ heartbeat_time[2] >= clock

\* C4: get_unifi_controller raises InvalidAuth for Unauthorized, LoginRequired
\* and any other client-library error, and CannotConnect for a timeout,
\* BadGateway, ServiceUnavailable, RequestError and ResponseError; it raises
\* exactly one of the two for every such failure.
C4_ConnectClassification ==
    /\ conn_raised \in {"Unauthorized", "LoginRequired", "AiounifiException"}
           => conn_error = "InvalidAuth"
    /\ conn_raised \in {"TimeoutError", "BadGateway", "ServiceUnavailable",
                        "RequestError", "ResponseError"}
           => conn_error = "CannotConnect"
    /\ conn_raised = "none" <=> conn_error = "none"

\* a subclass of RequestError was raised and surfaced as CannotConnect
C4_Witness ==
    /\ conn_raised = "BadGateway"
    /\ conn_error = "CannotConnect"
    /\ setup_pc = "failed"

\* C5: every failure of setup that reaches the host is ConfigEntryNotReady
\* (from the connect-error kind) or ConfigEntryAuthFailed (from the
\* auth-error kind).
C5_OnlyTwoKindsEscapeSetup ==
    setup_pc = "failed" =>
        setup_error \in {"ConfigEntryNotReady", "ConfigEntryAuthFailed"}

\* C6: in the loop started by one reconnect() call every failed attempt has
\* scheduled exactly one retry, due RETRY_TIMER seconds after the failure,
\* and after a successful attempt nothing is scheduled or in flight.
C6_OneRetryPerFailure ==
    reconnect_calls = 1 =>
        /\ retries_scheduled = failed_attempts
        /\ \A i \in 1 .. Len(timers) : timers[i] = last_failure + RETRY_TIMER
        /\ Len(timers) + Len(tasks) <= 1
        /\ succeeded => (timers = << >> /\ tasks = << >>)

\* two failures, two retries, then success
C6_Witness ==
    /\ reconnect_calls = 1
    /\ failed_attempts = 2
    /\ retries_scheduled = 2
    /\ succeeded
    /\ clock = 2 * RETRY_TIMER

\* C7: at most one reconnect attempt is in flight or scheduled at any time.
C7_AtMostOneAttempt ==
    Len(tasks) + Len(timers) <= 1

\* C8: once shutdown() has run (and reconnect() is not called again from
\* outside), no attempt begins a login and the stream is not running.
C8_NoRestartAfterShutdown ==
    (shutdown_ran /\ ~call_after_shutdown) =>
        (websocket = "stopped" /\ ~login_after_shutdown)

\* C9: when unload has returned True the sweep timer is cancelled, every
\* subscription is cancelled, the stream is stopped, and no sweep or stream
\* callback has run since.
C9_UnloadCancelsEverything ==
    unload_result = "ok" =>
        /\ ~heartbeat_check
        /\ added_subscribed = 0
        /\ options_listeners = 0
        /\ websocket = "stopped"
        /\ ~callback_after_unload

C11_CommandFailurePropagates ==
    \A id \in Ids : cmd_error[id] => cmd[id] = "failed"

\* a turn-on whose control command raised
C11_Witness ==
    /\ cmd_error[1]
    /\ cmd[1] = "failed"
    /\ target[1] = TRUE

\* C12 as stated: once initialize() has completed, the sweep is scheduled
\* and the push-event stream has been started.
C12_InitializeStartsStream ==
    setup_pc \in {"forward_entry_setups", "platforms_ready"} =>
        (heartbeat_check /\ websocket = "running")

\* C12 amended: once initialize() has completed the sweep is scheduled and
\* the stream is still stopped; the stream is running, with the sweep
\* scheduled, once async_setup_entry has returned True (until a stop event).
C12_SweepThenStream ==
    /\ setup_pc \in {"forward_entry_setups", "platforms_ready"} =>
           (heartbeat_check /\ websocket = "stopped")
    /\ (setup_pc = "done" /\ ~shutdown_ran) =>
           (heartbeat_check /\ websocket = "running")

\* setup has returned True with the sweep scheduled and the stream running
C12_Witness ==
    /\ setup_pc = "done"
    /\ heartbeat_check
    /\ websocket = "running"

\* C13: when an adapter's event callback receives an event whose device id
\* equals its object id and whose key is in the descriptor's
\* event_to_subscribe, the cached state becomes on exactly when the key is in
\* event_is_on, and exactly one state write is sent to the host.
C13_MatchingEventSetsState ==
    [][\A id \in Ids, key \in EventKeys :
          (/\ event_to_subscribe.tuple
           /\ event_is_on.tuple
           /\ key \in event_to_subscribe.keys
           /\ EventCallback(id, id, key))
          => (/\ is_on'[id] = (key \in event_is_on.keys)
              /\ notified' = 1
              /\ last_handler' = "event_handled")]_vars

\* a subscribed key that is an on-key has switched adapter 1 on while its
\* snapshot says off
C13_Witness ==
    /\ last_handler = "event_handled"
    /\ attr_written
    /\ notified = 1
    /\ event_is_on = KeyTuple({"on"})
    /\ event_to_subscribe = KeyTuple({"on", "off"})
    /\ is_on[1] = TRUE
    /\ relay_state = [id \in Ids |-> FALSE]
    /\ \A id \in Ids : id # 1 => ~is_on[id]

\* C17: creating the adapter reads the snapshot into the cached flag, also
\* for an event-only descriptor; async_update_state assigns the flag only
\* when the value read differs, and on an event-only adapter it leaves the
\* flag unchanged.
C17_StateReadOnceThenGuarded ==
    [][\A id \in Ids :
          /\ (~created[id] /\ created'[id]) =>
                 (/\ is_on'[id] = relay_state[id]
                  /\ attr_written'
                  /\ only_event'[id] = desc_only_event)
          /\ async_update_state(id) =>
                 (/\ attr_written' = (~only_event[id] /\ relay_state[id] # is_on[id])
                  /\ (only_event[id] => is_on' = is_on)
                  /\ (~only_event[id] => is_on'[id] = relay_state[id]))]_vars

\* an event-only adapter whose state read left a differing snapshot unread
C17_Witness ==
    /\ desc_only_event
    /\ created[1]
    /\ only_event[1]
    /\ last_handler = "update_state"
    /\ ~attr_written
    /\ is_on[1] # relay_state[1]

\* C20: an event callback changes the adapter's cached flag only when the
\* event's device id is the adapter's object id and its key is in
\* event_to_subscribe; for another device id it changes neither flag nor
\* availability of any adapter and sends no state write.
C20_OtherEventsChangeNothing ==
    [][\A id \in Ids, mac \in Macs, key \in EventKeys :
          EventCallback(id, mac, key) =>
             (/\ is_on' # is_on =>
                    (mac = id /\ event_to_subscribe.tuple
                              /\ key \in event_to_subscribe.keys)
              /\ \A other \in Ids : other # id =>
                    (is_on'[other] = is_on[other]
                        /\ available'[other] = available[other])
              /\ mac # id =>
                    (is_on' = is_on /\ available' = available /\ notified' = 0))]_vars

\* an event for another device id reached an adapter that is on
C20_Witness ==
    /\ last_handler = "event_ignored"
    /\ notified = 0
    /\ event_to_subscribe = KeyTuple({"on", "off"})
    /\ event_is_on = KeyTuple({"on"})
    /\ \E id \in Ids : ~available[id]
    /\ is_on[1] # relay_state[1]

\* C14: shutdown() leaves the push-event stream stopped whatever the session
\* state, changes nothing else of the session, and a call made when a
\* shutdown has already stopped the stream leaves every variable as it was.
C14_ShutdownIdempotent ==
    [][Shutdown =>
          (/\ websocket' = "stopped"
           /\ UNCHANGED <<tasks, timers, reconnect_calls, failed_attempts,
                          retries_scheduled, last_failure, succeeded>>
           /\ (shutdown_ran /\ websocket = "stopped") => UNCHANGED vars)]_vars

\* the only reconnect task was created after a shutdown and restarted the
\* stream; a later shutdown has stopped it again
C14_Witness ==
    /\ shutdown_ran
    /\ websocket = "stopped"
    /\ reconnect_calls = 1
    /\ login_after_shutdown
    /\ succeeded
    /\ failed_attempts = 0
    /\ tasks = << >>

\* C15: a sweep signals and drops exactly the tracked ids whose time is
\* strictly before now, so no id is signalled twice over successive sweeps;
\* an id whose time is now or later is not signalled and stays tracked with
\* the same time.
C15_MissedHeartbeatOneShot ==
    [][HeartbeatInterval =>
          \A id \in Ids :
             /\ signal_count'[id] <= 1
             /\ (id \in DOMAIN heartbeat_time /\ heartbeat_time[id] < clock) =>
                    (/\ id \in dispatched'
                     /\ signal_count'[id] = signal_count[id] + 1
                     /\ id \notin DOMAIN heartbeat_time')
             /\ (id \in DOMAIN heartbeat_time /\ heartbeat_time[id] >= clock) =>
                    (/\ id \notin dispatched'
                     /\ signal_count'[id] = signal_count[id]
                     /\ id \in DOMAIN heartbeat_time'
                     /\ heartbeat_time'[id] = heartbeat_time[id])
             /\ id \notin DOMAIN heartbeat_time =>
                    (/\ id \notin dispatched'
                     /\ signal_count'[id] = signal_count[id])]_vars

\* one id has had its single signal and later sweeps left it alone, while
\* another id whose time has not passed is still tracked
C15_Witness ==
    /\ \E id \in Ids : signal_count[id] = 1 /\ id \notin dispatched
                          /\ id \notin DOMAIN heartbeat_time
    /\ \E id \in DOMAIN heartbeat_time : heartbeat_time[id] >= clock
    /\ clock > 0

\* C16: once the kind is registered, the handling of an object-added event
\* for id creates one adapter for id when (KEY, id) is not known and id is
\* allowed and supported, and none otherwise; no other id gets an adapter.
C16_AddedEventCreatesOnce ==
    [][\A id \in Ids :
          (ObjectAdded(id) /\ added_subscribed > 0) =>
             LET fresh == /\ <<KEY, id>> \notin known_objects
                          /\ allowed_fn(id)
                          /\ supported_fn(id)
             IN  /\ entities' = [i \in Ids |->
                        entities[i] + IF i = id /\ fresh THEN 1 ELSE 0]
                 /\ last_created' = IF fresh THEN 1 ELSE 0
                 /\ fresh => <<KEY, id>> \in known_objects']_vars

\* the last added event created exactly one adapter, and no id has two
C16_Witness ==
    /\ last_op = "added"
    /\ last_created = 1
    /\ \E id \in Ids : entities[id] = 1 /\ <<KEY, id>> \in known_objects
    /\ \A id \in Ids : entities[id] <= 1
    /\ unload_result = "none"

\* C18: after a failed setup nothing of the session is left: no registry
\* entry, no platform registration, no adapter, no stop listener, the stream
\* stopped and no sweep timer.  The registry entry exists while the platforms
\* are set up, and the stream runs only once setup has finished after them.
C18_FailedSetupLeavesNothing ==
    /\ setup_pc = "failed" =>
          (/\ ~registry
           /\ added_subscribed = 0
           /\ options_listeners = 0
           /\ \A id \in Ids : entities[id] = 0
           /\ ~stop_listener
           /\ websocket = "stopped"
           /\ ~heartbeat_check)
    /\ setup_pc \in {"forward_entry_setups", "platforms_ready"} => registry
    /\ added_subscribed > 0 => setup_pc \in {"platforms_ready", "done"}
    /\ websocket = "running" => (setup_pc = "done" /\ added_subscribed > 0)

\* initialize() loaded the controller's objects and then raised
C18_Witness ==
    /\ setup_pc = "failed"
    /\ init_raised # "none"
    /\ outlets # {}

\* C19: async_unload_entry returns the result of unloading the platforms and
\* pops the registry entry exactly when that result is True; on False the
\* entry stays.
C19_UnloadPopsIffOk ==
    [][\A ok \in BOOLEAN :
          UnloadPlatformsDone(ok) =>
             (/\ unload_result' = IF ok THEN "ok" ELSE "failed"
              /\ registry
              /\ registry' = ~ok)]_vars

\* platform unload failed and the session is still registered
C19_Witness ==
    /\ unload_result = "failed"
    /\ unload_pc = "idle"
    /\ registry
    /\ setup_pc = "done"

====
